---------------------------- MODULE Spec2Model ----------------------------
(***************************************************************************)
(* The zoom / brush geometry helpers of victory-chart                      *)
(* (src/components/containers/helper-methods.js) and the VictoryZoom       *)
(* container that drives scale and pan from mouse and wheel events.        *)
(*                                                                         *)
(* Numbers are JavaScript numbers in the source.  The model works on       *)
(* integers and draws every input from a grid on which each division the   *)
(* code performs (range / 2, range * factor / 2, handleWidth / 2,          *)
(* delta / getDomainScale()) is exact, so \div is the exact quotient.      *)
(* Date-valued domains (Collection.containsDates) are not modelled: every  *)
(* domain here is numeric, for which pan returns newDomain itself.         *)
(***************************************************************************)
EXTENDS Integers, Sequences, FiniteSets, TLC

VARIABLES
  step,            \* the helper or handler that produced the current state
  currentDomain,   \* scale / pan argument
  originalDomain,  \* scale / pan argument
  factor,          \* scale argument, the rational <<numerator, denominator>>
  delta,           \* pan argument
  box,             \* constrainBox / getResizeMutation / getActiveHandles argument
  fullDomainBox,   \* constrainBox argument
  point,           \* getActiveHandles argument
  props,           \* getActiveHandles argument ({handleWidth})
  handles,         \* getResizeMutation argument
  ret,             \* the value the helper returned
  domain,          \* VictoryZoom: this.state.domain.x
  isPanning,       \* VictoryZoom: this.isPanning
  startX,          \* VictoryZoom: this.startX
  lastDomain,      \* VictoryZoom: this.lastDomain.x
  targetBounds,    \* VictoryZoom: this.targetBounds
  frames,          \* VictoryZoom: callbacks handed to requestAnimationFrame, not yet run
  wheels           \* VictoryZoom: number of wheel events handled so far

inputs == <<currentDomain, originalDomain, factor, delta, box, fullDomainBox,
            point, props, handles>>
zoom == <<domain, isPanning, startX, lastDomain, targetBounds, frames, wheels>>
vars == <<step, inputs, ret, zoom>>

-----------------------------------------------------------------------------
(* Bounds of the explored inputs *)

\* scale factors are the rationals n / FactorDen, 1 <= n <= MaxFactorNum
FactorDen == 2
MaxFactorNum == 5
\* domain bounds are the multiples k * DomainUnit, 0 <= k <= MaxDomainCoord
MaxDomainCoord == 3
\* pan deltas are the multiples k * DomainUnit, -MaxDelta <= k <= MaxDelta
MaxDelta == 2
\* box coordinates of constrainBox / getResizeMutation are 0 .. MaxCoord
MaxCoord == 3
\* box coordinates of getActiveHandles are the even numbers 0 .. 2 * MaxBoxCoord
MaxBoxCoord == 3
\* handle widths are the even numbers 0 .. 2 * MaxHalfHandle
MaxHalfHandle == 2

DomainUnit == 2 * FactorDen

Abs(v) == IF v < 0 THEN -v ELSE v
Min(a, b) == IF a < b THEN a ELSE b
Max(a, b) == IF a > b THEN a ELSE b

-----------------------------------------------------------------------------
(* helper-methods.js: DomainMath *)

scaleUnclamped(cur, orig, f) ==
  LET from == cur[1]
      to == cur[2]
      range == Abs(from - to)
      midpoint == from + (range \div 2)
      newRange == (range * f[1]) \div (f[2] * 2)
  IN <<midpoint - newRange, midpoint + newRange>>

\* scale(currentDomain, originalDomain, factor); factor is <<num, den>>
scale(cur, orig, f) ==
  LET fromBound == orig[1]
      toBound == orig[2]
      from == cur[1]
      to == cur[2]
      range == Abs(from - to)
      midpoint == from + (range \div 2)
      newRange == (range * f[1]) \div (f[2] * 2)
  IN <<Max(midpoint - newRange, fromBound), Min(midpoint + newRange, toBound)>>

\* pan(currentDomain, originalDomain, delta)
pan(cur, orig, d) ==
  LET fromCurrent == cur[1]
      toCurrent == cur[2]
      fromOriginal == orig[1]
      toOriginal == orig[2]
      lowerBound == fromCurrent + d
      upperBound == toCurrent + d
      dx == toCurrent - fromCurrent
  IN IF lowerBound > fromOriginal /\ upperBound < toOriginal
       THEN <<lowerBound, upperBound>>
     ELSE IF lowerBound < fromOriginal
       THEN <<fromOriginal, fromOriginal + dx>>
     ELSE IF upperBound > toOriginal
       THEN <<toOriginal - dx, toOriginal>>
     ELSE cur

-----------------------------------------------------------------------------
(* Specification of the domain helpers: Init draws the arguments, one      *)
(* action per helper applies it.  The current domain has its bounds in     *)
(* either order and a non-zero width; the original domain is the ordered   *)
(* extent of the data.                                                     *)

DomainCoords == {k * DomainUnit : k \in 0..MaxDomainCoord}
Factors == {<<n, FactorDen>> : n \in 1..MaxFactorNum}
Deltas == {k * DomainUnit : k \in (-MaxDelta)..MaxDelta}

NoBox == [x1 |-> 0, x2 |-> 0, y1 |-> 0, y2 |-> 0]

ZoomIdle ==
  /\ domain = <<>> /\ isPanning = FALSE /\ startX = 0 /\ lastDomain = <<>>
  /\ targetBounds = <<>> /\ frames = <<>> /\ wheels = 0

InitDomain ==
  /\ step = "input"
  /\ currentDomain \in {d \in DomainCoords \X DomainCoords : d[1] # d[2]}
  /\ originalDomain \in {o \in DomainCoords \X DomainCoords : o[1] < o[2]}
  /\ factor \in Factors
  /\ delta \in Deltas
  /\ box = NoBox /\ fullDomainBox = NoBox /\ point = <<>> /\ props = <<>>
  /\ handles = <<>>
  /\ ret = <<>>
  /\ ZoomIdle

ApplyScale ==
  /\ step = "input"
  /\ step' = "scale"
  /\ ret' = scale(currentDomain, originalDomain, factor)
  /\ UNCHANGED <<inputs, zoom>>

ApplyPan ==
  /\ step = "input"
  /\ step' = "pan"
  /\ ret' = pan(currentDomain, originalDomain, delta)
  /\ UNCHANGED <<inputs, zoom>>

NextDomain == ApplyScale \/ ApplyPan

SpecDomain == InitDomain /\ [][NextDomain]_vars

-----------------------------------------------------------------------------
(* Claims about scale and pan, checked under SpecDomain *)

Contained(d, o) == d[1] >= o[1] /\ d[2] <= o[2]

\* C1: for every D, O and factor f > 0 the domain R returned by
\* scale(D, O, f) has R.from >= O.from and R.to <= O.to.
C1_ScaleWithinOuter ==
  step = "scale" => Contained(ret, originalDomain)

\* C1 witness: a zoom out (f > 1) whose unclamped bounds leave O on both
\* sides, so that both clamps acted.
C1_Witness ==
  /\ step = "scale"
  /\ factor[1] > factor[2]
  /\ scaleUnclamped(currentDomain, originalDomain, factor)[1] < originalDomain[1]
  /\ scaleUnclamped(currentDomain, originalDomain, factor)[2] > originalDomain[2]
  /\ ret = originalDomain

\* C2: for every D, O and delta the domain returned by pan(D, O, delta) is
\* contained in O (result.from >= O.from and result.to <= O.to), the
\* touching cases and D wider than O included.
C2_PanWithinOuter ==
  step = "pan" => Contained(ret, originalDomain)

\* C5: when the translated domain [from + delta, to + delta] fits within O,
\* bounds touching included, pan returns exactly the translated domain.
C5_PanFitsIsShift ==
  (/\ step = "pan"
   /\ originalDomain[1] <= currentDomain[1] + delta
   /\ currentDomain[2] + delta <= originalDomain[2])
  => ret = <<currentDomain[1] + delta, currentDomain[2] + delta>>

\* C6: for every D contained in O, D given in either bound order,
\* scale(D, O, 1) returns a domain equal to D (as the same pair, or as the
\* same interval with its bounds in order).
C6_ScaleByOneIsNoOp ==
  (/\ step = "scale"
   /\ factor[1] = factor[2]
   /\ Min(currentDomain[1], currentDomain[2]) >= originalDomain[1]
   /\ Max(currentDomain[1], currentDomain[2]) <= originalDomain[2])
  => \/ ret = currentDomain
     \/ ret = <<Min(currentDomain[1], currentDomain[2]),
                Max(currentDomain[1], currentDomain[2])>>

-----------------------------------------------------------------------------
(* helper-methods.js: BoxGeometry, HandleSet, BoxMutator *)

withinBoundsStrict(pt, bounds, padding) ==
  LET pad == IF padding # 0 THEN padding \div 2 ELSE 0
  IN /\ pt.x + pad > Min(bounds.x1, bounds.x2)
     /\ pt.x - pad < Max(bounds.x1, bounds.x2)
     /\ pt.y + pad > Min(bounds.y1, bounds.y2)
     /\ pt.y - pad < Max(bounds.y1, bounds.y2)

\* withinBounds(point, bounds, padding); an absent padding is passed as 0
withinBounds(pt, bounds, padding) ==
  LET pad == IF padding # 0 THEN padding \div 2 ELSE 0
  IN /\ pt.x + pad >= Min(bounds.x1, bounds.x2)
     /\ pt.x - pad <= Max(bounds.x1, bounds.x2)
     /\ pt.y + pad >= Min(bounds.y1, bounds.y2)
     /\ pt.y - pad <= Max(bounds.y1, bounds.y2)

\* getHandles(props, domainBox)
getHandles(pr, domainBox) ==
  LET x1 == domainBox.x1
      x2 == domainBox.x2
      y1 == domainBox.y1
      y2 == domainBox.y2
      minX == Min(x1, x2)
      maxX == Max(x1, x2)
      minY == Min(y1, y2)
      maxY == Max(y1, y2)
      handleWidth == pr.handleWidth \div 2
  IN [left |-> [x1 |-> minX - handleWidth, x2 |-> minX + handleWidth,
                y1 |-> y1, y2 |-> y2],
      right |-> [x1 |-> maxX - handleWidth, x2 |-> maxX + handleWidth,
                 y1 |-> y1, y2 |-> y2],
      top |-> [x1 |-> x1, x2 |-> x2,
               y1 |-> minY + handleWidth, y2 |-> minY - handleWidth],
      bottom |-> [x1 |-> x1, x2 |-> x2,
                  y1 |-> maxY + handleWidth, y2 |-> maxY - handleWidth]]

options == <<"top", "bottom", "left", "right">>

\* activeHandles.length && activeHandles: the number 0 when no handle matches
LengthAnd(activeHandles) ==
  IF Len(activeHandles) = 0
    THEN [truthy |-> FALSE, value |-> 0]
    ELSE [truthy |-> TRUE, value |-> activeHandles]

\* getActiveHandles(point, props, domainBox)
getActiveHandles(pt, pr, domainBox) ==
  LET hs == getHandles(pr, domainBox)
      activeHandles == SelectSeq(options, LAMBDA opt : withinBounds(pt, hs[opt], 0))
  IN LengthAnd(activeHandles)

\* lodash assign(object, source): the own keys of source overwrite object's
assign(memo, source) ==
  [k \in (DOMAIN memo) \cup (DOMAIN source) |->
     IF k \in DOMAIN source THEN source[k] ELSE memo[k]]

RECURSIVE reduceAssign(_, _, _)
reduceAssign(names, mutations, memo) ==
  IF names = <<>> THEN memo
  ELSE reduceAssign(Tail(names), mutations, assign(memo, mutations[Head(names)]))

\* getResizeMutation(box, handles)
getResizeMutation(b, hs) ==
  LET x1 == b.x1
      y1 == b.y1
      x2 == b.x2
      y2 == b.y2
      mutations ==
        [left |-> [x1 |-> Max(x1, x2), x2 |-> Min(x1, x2), y1 |-> y1, y2 |-> y2],
         right |-> [x1 |-> Min(x1, x2), x2 |-> Max(x1, x2), y1 |-> y1, y2 |-> y2],
         top |-> [y1 |-> Max(y1, y2), y2 |-> Min(y1, y2), x1 |-> x1, x2 |-> x2],
         bottom |-> [y1 |-> Min(y1, y2), y2 |-> Max(y1, y2), x1 |-> x1, x2 |-> x2]]
  IN reduceAssign(hs, mutations, <<>>)

\* constrainBox(box, fullDomainBox)
constrainBox(b, full) ==
  LET x1 == full.x1
      y1 == full.y1
      x2 == full.x2
      y2 == full.y2
  IN [x1 |-> IF b.x2 > x2 THEN x2 - Abs(b.x2 - b.x1) ELSE Max(b.x1, x1),
      y1 |-> IF b.y2 > y2 THEN y2 - Abs(b.y2 - b.y1) ELSE Max(b.y1, y1),
      x2 |-> IF b.x1 < x1 THEN x1 + Abs(b.x2 - b.x1) ELSE Min(b.x2, x2),
      y2 |-> IF b.y1 < y1 THEN y1 + Abs(b.y2 - b.y1) ELSE Min(b.y2, y2)]

-----------------------------------------------------------------------------
(* Specification of constrainBox.  The outer box is the full domain box     *)
(* getDomainBox builds with Math.min / Math.max, so its corners are         *)
(* ordered; the box itself has its corners in either order.                 *)

Boxes(coords) == [x1 : coords, x2 : coords, y1 : coords, y2 : coords]

InitConstrain ==
  /\ step = "input"
  /\ box \in Boxes(0..MaxCoord)
  /\ fullDomainBox \in {o \in Boxes(0..MaxCoord) : o.x1 < o.x2 /\ o.y1 < o.y2}
  /\ currentDomain = <<>> /\ originalDomain = <<>> /\ factor = <<>> /\ delta = 0
  /\ point = <<>> /\ props = <<>> /\ handles = <<>>
  /\ ret = <<>>
  /\ ZoomIdle

ApplyConstrainBox ==
  /\ step = "input"
  /\ step' = "constrainBox"
  /\ ret' = constrainBox(box, fullDomainBox)
  /\ UNCHANGED <<inputs, zoom>>

NextConstrain == ApplyConstrainBox

SpecConstrain == InitConstrain /\ [][NextConstrain]_vars

\* C3: constrainBox(B, O) preserves the size of B on both axes, also when B
\* is wider or taller than O.
C3_ConstrainKeepsSize ==
  step = "constrainBox" =>
    /\ Abs(ret.x2 - ret.x1) = Abs(box.x2 - box.x1)
    /\ Abs(ret.y2 - ret.y1) = Abs(box.y2 - box.y1)

\* C8: for every box B, corners in either order, whose width and height do
\* not exceed those of the ordered outer box O, every coordinate of
\* constrainBox(B, O) lies within O.
C8_ConstrainWithinOuter ==
  (/\ step = "constrainBox"
   /\ Abs(box.x2 - box.x1) <= fullDomainBox.x2 - fullDomainBox.x1
   /\ Abs(box.y2 - box.y1) <= fullDomainBox.y2 - fullDomainBox.y1)
  => /\ fullDomainBox.x1 <= ret.x1 /\ ret.x1 <= fullDomainBox.x2
     /\ fullDomainBox.x1 <= ret.x2 /\ ret.x2 <= fullDomainBox.x2
     /\ fullDomainBox.y1 <= ret.y1 /\ ret.y1 <= fullDomainBox.y2
     /\ fullDomainBox.y1 <= ret.y2 /\ ret.y2 <= fullDomainBox.y2

-----------------------------------------------------------------------------
(* Specification of getResizeMutation: the box in either corner order, the  *)
(* handles a list of one or two distinct handle names.                      *)

HandleNames == {"top", "bottom", "left", "right"}
HandleLists ==
  {<<h>> : h \in HandleNames}
    \cup {p \in HandleNames \X HandleNames : p[1] # p[2]}

InitResize ==
  /\ step = "input"
  /\ box \in Boxes(0..MaxCoord)
  /\ handles \in HandleLists
  /\ fullDomainBox = NoBox
  /\ currentDomain = <<>> /\ originalDomain = <<>> /\ factor = <<>> /\ delta = 0
  /\ point = <<>> /\ props = <<>>
  /\ ret = <<>>
  /\ ZoomIdle

ApplyGetResizeMutation ==
  /\ step = "input"
  /\ step' = "getResizeMutation"
  /\ ret' = getResizeMutation(box, handles)
  /\ UNCHANGED <<inputs, zoom>>

NextResize == ApplyGetResizeMutation

SpecResize == InitResize /\ [][NextResize]_vars

Listed(h) == \E i \in 1..Len(handles) : handles[i] = h

\* C7: each listed handle normalises the coordinates of its own axis and of
\* no other: left gives x1 = max, x2 = min; right gives x1 = min, x2 = max;
\* top gives y1 = max, y2 = min; bottom gives y1 = min, y2 = max; an axis
\* with no listed handle keeps the input box's coordinates.  Stated for the
\* lists that name at most one handle per axis.
C7_ResizeHandlesIndependent ==
  (/\ step = "getResizeMutation"
   /\ ~(Listed("left") /\ Listed("right"))
   /\ ~(Listed("top") /\ Listed("bottom")))
  => /\ Listed("left") =>
          ret.x1 = Max(box.x1, box.x2) /\ ret.x2 = Min(box.x1, box.x2)
     /\ Listed("right") =>
          ret.x1 = Min(box.x1, box.x2) /\ ret.x2 = Max(box.x1, box.x2)
     /\ Listed("top") =>
          ret.y1 = Max(box.y1, box.y2) /\ ret.y2 = Min(box.y1, box.y2)
     /\ Listed("bottom") =>
          ret.y1 = Min(box.y1, box.y2) /\ ret.y2 = Max(box.y1, box.y2)
     /\ (~Listed("left") /\ ~Listed("right")) =>
          ret.x1 = box.x1 /\ ret.x2 = box.x2
     /\ (~Listed("top") /\ ~Listed("bottom")) =>
          ret.y1 = box.y1 /\ ret.y2 = box.y2

-----------------------------------------------------------------------------
(* Specification of getActiveHandles: a box of positive width and height,   *)
(* its corners in either order, on even coordinates (so that the centre of  *)
(* an edge is a grid point), an even handleWidth, and any grid point.       *)

BoxCoords == {2 * k : k \in 0..MaxBoxCoord}
HandleWidths == {2 * k : k \in 0..MaxHalfHandle}
PointCoords == 0..(2 * MaxBoxCoord)

InitHandles ==
  /\ step = "input"
  /\ box \in {b \in Boxes(BoxCoords) : b.x1 # b.x2 /\ b.y1 # b.y2}
  /\ props \in [handleWidth : HandleWidths]
  /\ point \in [x : PointCoords, y : PointCoords]
  /\ fullDomainBox = NoBox /\ handles = <<>>
  /\ currentDomain = <<>> /\ originalDomain = <<>> /\ factor = <<>> /\ delta = 0
  /\ ret = <<>>
  /\ ZoomIdle

ApplyGetActiveHandles ==
  /\ step = "input"
  /\ step' = "getActiveHandles"
  /\ ret' = getActiveHandles(point, props, box)
  /\ UNCHANGED <<inputs, zoom>>

NextHandles == ApplyGetActiveHandles

SpecHandles == InitHandles /\ [][NextHandles]_vars

MinX == Min(box.x1, box.x2)
MaxX == Max(box.x1, box.x2)
MinY == Min(box.y1, box.y2)
MaxY == Max(box.y1, box.y2)
MidX == (box.x1 + box.x2) \div 2
MidY == (box.y1 + box.y2) \div 2

\* what the claim expects at a point of the box: the two adjoining edges at
\* a corner, the edge at the centre of an edge, in the order of options
Expected(px, py) ==
  SelectSeq(options, LAMBDA opt :
    \/ opt = "top" /\ py = MinY
    \/ opt = "bottom" /\ py = MaxY
    \/ opt = "left" /\ px = MinX
    \/ opt = "right" /\ px = MaxX)

AtCorner == point.x \in {MinX, MaxX} /\ point.y \in {MinY, MaxY}
AtEdgeCentre ==
  \/ point.x = MidX /\ point.y \in {MinY, MaxY}
  \/ point.y = MidY /\ point.x \in {MinX, MaxX}
StrictlyInside ==
  /\ MinX < point.x /\ point.x < MaxX
  /\ MinY < point.y /\ point.y < MaxY

\* the point is more than handleWidth / 2 away from every edge of the box
ClearOfHandles ==
  /\ MinX + (props.handleWidth \div 2) < point.x
  /\ point.x < MaxX - (props.handleWidth \div 2)
  /\ MinY + (props.handleWidth \div 2) < point.y
  /\ point.y < MaxY - (props.handleWidth \div 2)

\* the box is wider and taller than a handle is thick
BoxExceedsHandles ==
  /\ MaxX - MinX > props.handleWidth
  /\ MaxY - MinY > props.handleWidth

\* C4 (as claimed): for every box and every handleWidth, getActiveHandles
\* returns exactly two handle names at an exact corner, exactly one at the
\* centre of an edge, and a falsy value strictly inside the box.
C4_ActiveHandlesAsClaimed ==
  step = "getActiveHandles" =>
    /\ AtCorner => ret.truthy /\ Len(ret.value) = 2
    /\ AtEdgeCentre => ret.truthy /\ Len(ret.value) = 1
    /\ StrictlyInside => ~ret.truthy

\* C4 (amended): for a box wider and taller than handleWidth,
\* getActiveHandles returns exactly the two adjoining edges at an exact
\* corner and exactly the one edge at the centre of an edge; it returns a
\* falsy value at a point inside the box that is more than handleWidth / 2
\* away from every edge.
C4_ActiveHandles ==
  step = "getActiveHandles" =>
    /\ (BoxExceedsHandles /\ AtCorner) =>
         /\ ret.truthy /\ Len(ret.value) = 2
         /\ ret.value = Expected(point.x, point.y)
    /\ (BoxExceedsHandles /\ AtEdgeCentre) =>
         /\ ret.truthy /\ Len(ret.value) = 1
         /\ ret.value = Expected(point.x, point.y)
    /\ ClearOfHandles => ~ret.truthy

\* C4 witness: a corner of a box with handles of positive thickness, where
\* the top and left handles are returned.
C4_Witness ==
  /\ step = "getActiveHandles"
  /\ props.handleWidth > 0
  /\ BoxExceedsHandles
  /\ point.x = MinX /\ point.y = MinY
  /\ ret.truthy /\ ret.value = <<"top", "left">>

-----------------------------------------------------------------------------
(* VictoryZoom.  The props of the component do not change while the events *)
(* are handled, so componentWillReceiveProps does not run and the data     *)
(* domain is fixed.  setDomain also pauses and resumes the animation timer *)
(* and calls props.onDomainChange; neither touches the state below.        *)

\* the callbacks pending in requestAnimationFrame are at most MaxFrames
MaxFrames == 2
\* at most MaxWheels wheel events are handled
MaxWheels == 2
\* the data domain is [0, DataUnits * ZoomUnit]
DataUnits == 3

\* fallbackProps
ChartWidth == 450
ChartPadding == 50
\* the divisor of deltaY in onWheel
WheelScale == 300

\* every bound of a domain stays a multiple of 4^(MaxWheels - wheels): a
\* wheel callback divides a range by at most 4, a pan adds multiples of it
ZoomUnit == 4 ^ MaxWheels

Undefined == "undefined"

\* constructor: Helpers.getRange(props, "x") is [padding, width - padding]
plottableWidth == (ChartWidth - ChartPadding) - ChartPadding
\* constructor: chart.props.width || fallbackProps.width
width == ChartWidth

\* getDataDomain(): the extent of the chart's data, fixed by its props
getDataDomain == [x |-> <<0, DataUnits * ZoomUnit>>]

\* this.chartRef.getSvgBounds(): the chart drawn at its own width
getSvgBounds == [left |-> 0, width |-> width]

\* the pointer positions of mouse events: the two ends of the plot area
ClientXs == {ChartPadding, ChartWidth - ChartPadding}
\* the deltaY of wheel events: factors -1, 1/2 and 2
DeltaYs == {-600, -150, 300}

\* delta / this.getDomainScale(), with getDomainScale() =
\* (targetBounds.width / width * plottableWidth) / (to - from); a zero
\* (to - from) makes the scale infinite and the quotient 0
calculatedDx(d) ==
  LET from == lastDomain[1]
      to == lastDomain[2]
  IN (d * (to - from) * width) \div (targetBounds.width * plottableWidth)

\* props.zoomDomain || this.getDataDomain(): an interval of the data domain
ZoomCoords == {k * ZoomUnit : k \in 0..DataUnits}

InitZoom ==
  /\ step = "constructor"
  /\ domain \in {d \in ZoomCoords \X ZoomCoords : d[1] < d[2]}
  /\ isPanning = FALSE
  /\ startX = Undefined /\ lastDomain = Undefined /\ targetBounds = Undefined
  /\ frames = <<>>
  /\ wheels = 0
  /\ currentDomain = <<>> /\ originalDomain = <<>> /\ factor = <<>> /\ delta = 0
  /\ box = NoBox /\ fullDomainBox = NoBox /\ point = <<>> /\ props = <<>>
  /\ handles = <<>> /\ ret = <<>>

onMouseDown(clientX) ==
  /\ targetBounds' = getSvgBounds
  /\ isPanning' = TRUE
  /\ startX' = clientX - targetBounds'.left
  /\ lastDomain' = domain
  /\ step' = "onMouseDown"
  /\ UNCHANGED <<domain, frames, wheels, inputs, ret>>

onMouseUp ==
  /\ isPanning' = FALSE
  /\ step' = "onMouseUp"
  /\ UNCHANGED <<domain, startX, lastDomain, targetBounds, frames, wheels, inputs, ret>>

onMouseLeave ==
  /\ isPanning' = FALSE
  /\ step' = "onMouseLeave"
  /\ UNCHANGED <<domain, startX, lastDomain, targetBounds, frames, wheels, inputs, ret>>

onMouseMoveAlways(clientX) ==
  /\ Len(frames) < MaxFrames
  /\ frames' = Append(frames, [kind |-> "pan", clientX |-> clientX])
  /\ step' = "onMouseMove"
  /\ UNCHANGED <<domain, isPanning, startX, lastDomain, targetBounds, wheels, inputs, ret>>

onMouseMove(clientX) ==
  /\ isPanning => Len(frames) < MaxFrames
  /\ frames' = IF isPanning
                 THEN Append(frames, [kind |-> "pan", clientX |-> clientX])
                 ELSE frames
  /\ step' = "onMouseMove"
  /\ UNCHANGED <<domain, isPanning, startX, lastDomain, targetBounds, wheels, inputs, ret>>

onWheel(deltaY) ==
  /\ Len(frames) < MaxFrames
  /\ wheels < MaxWheels
  /\ frames' = Append(frames, [kind |-> "wheel", deltaY |-> deltaY])
  /\ wheels' = wheels + 1
  /\ step' = "onWheel"
  /\ UNCHANGED <<domain, isPanning, startX, lastDomain, targetBounds, inputs, ret>>

Remove(seq, i) == SubSeq(seq, 1, i - 1) \o SubSeq(seq, i + 1, Len(seq))

\* the callback onMouseMove hands to requestAnimationFrame; setDomain and
\* setState both store {x: nextXDomain}
panFrame(i) ==
  /\ i \in 1..Len(frames)
  /\ frames[i].kind = "pan"
  /\ LET d == startX - (frames[i].clientX - targetBounds.left)
         nextXDomain == pan(lastDomain, getDataDomain.x, calculatedDx(d))
     IN domain' = nextXDomain
  /\ frames' = Remove(frames, i)
  /\ step' = "panFrame"
  /\ UNCHANGED <<isPanning, startX, lastDomain, targetBounds, wheels, inputs, ret>>

\* the callback onWheel hands to requestAnimationFrame
wheelFrame(i) ==
  /\ i \in 1..Len(frames)
  /\ frames[i].kind = "wheel"
  /\ LET x == domain
         xBounds == getDataDomain.x
         nextXDomain == scale(x, xBounds, <<WheelScale + frames[i].deltaY, WheelScale>>)
     IN domain' = nextXDomain
  /\ frames' = Remove(frames, i)
  /\ step' = "wheelFrame"
  /\ UNCHANGED <<isPanning, startX, lastDomain, targetBounds, wheels, inputs, ret>>

NextZoom ==
  \/ \E clientX \in ClientXs : onMouseDown(clientX)
  \/ onMouseUp
  \/ onMouseLeave
  \/ \E clientX \in ClientXs : onMouseMove(clientX)
  \/ \E deltaY \in DeltaYs : onWheel(deltaY)
  \/ \E i \in 1..MaxFrames : panFrame(i)
  \/ \E i \in 1..MaxFrames : wheelFrame(i)

SpecZoom == InitZoom /\ [][NextZoom]_vars

-----------------------------------------------------------------------------
(* Claims about VictoryZoom, checked under SpecZoom *)

\* C9: starting from a state domain within the data domain, after any
\* sequence of mouse-down, mouse-move, mouse-up, mouse-leave and wheel
\* events, with their animation-frame callbacks run in any order,
\* state.domain.x is an ordered interval contained within getDataDomain().x.
C9_DomainWithinData ==
  /\ domain[1] <= domain[2]
  /\ getDataDomain.x[1] <= domain[1]
  /\ domain[2] <= getDataDomain.x[2]

\* C10 (as claimed): a step sets state.domain through pan only while a drag
\* is active, so no pan callback runs while isPanning is false.
C10_PanOnlyWhileDragging ==
  step = "panFrame" => isPanning

PanFrames(fs) == Len(SelectSeq(fs, LAMBDA f : f.kind = "pan"))

\* C10 (amended): while isPanning is false no step schedules a pan callback:
\* after a mouse-up or mouse-leave only the callbacks that earlier
\* mouse-moves had already scheduled can still set state.domain through pan.
C10_NoPanScheduledWhileIdle ==
  [][~isPanning => PanFrames(frames') <= PanFrames(frames)]_vars

\* C10 witness: a mouse-move handled after the drag ended, while a pan
\* callback of the drag is still pending.
C10_Witness ==
  /\ step = "onMouseMove"
  /\ ~isPanning
  /\ PanFrames(frames) > 0

=============================================================================
